---- MODULE Spec2Model ----
(***************************************************************************)
(* Model of the swipenotes-api AI-extraction gateway:                      *)
(*   api/ai-extraction.go  Handler and its helper functions                *)
(*   pkg/shared/redis.go   GetRedisClient, CheckRateLimit,                 *)
(*                         IncrementRateLimit, getTodayKey                 *)
(*   pkg/shared (constants) ClientRateLimitPerDay, GlobalRateLimitPerDay,  *)
(*                         RateLimitTTL                                    *)
(* Each inbound request is one goroutine running Handler; the goroutines   *)
(* interleave at every call to the counter store and at the upstream call. *)
(* The counter store is Redis: string keys, integer values, per-key TTL.   *)
(***************************************************************************)
EXTENDS Integers, Sequences, FiniteSets, TLC

\* ------------------------------------------------------------------------
\* Bounds of the model
\* ------------------------------------------------------------------------
NumRequests == 2
\* requests of one burst from a single identity
BurstSize == 3
\* longest header value and connection address handed to GetClientIP
MaxStrLen == 3
\* clock ticks per UTC day (resolution of the model clock)
DayLen == 2
\* last clock value the model reaches
MaxTime == 2

\* ------------------------------------------------------------------------
\* Program constants
\* ------------------------------------------------------------------------
ClientRateLimitPerDay == 5
GlobalRateLimitPerDay == 50
\* 24 * time.Hour, in clock ticks
RateLimitTTLShort == DayLen - 1
RateLimitTTL == DayLen

\* the requests that arrive under Spec and SpecSeq, and all the requests
Arrivals == 1..NumRequests
Requests == 1..(IF BurstSize > NumRequests THEN BurstSize ELSE NumRequests)
\* identities GetClientIP can return
Clients == {"ip1", "ip2"}
Global == "global"
Scopes == Clients \cup {Global}
MaxDay == MaxTime \div DayLen
Days == 0..MaxDay

\* ratelimit:client:<ip>:<day> and ratelimit:global:<day>
clientKey(ip, day) == <<ip, day>>
globalKey(day) == <<Global, day>>
Keys == Scopes \X Days

\* a key with no TTL never expires
NoTTL == 0 - 1
\* a missing key: Redis holds no entry for it
Missing == [val |-> 0, exp |-> NoTTL]

Methods == {"POST", "GET"}
\* what json.Decode of the request body yields
Bodies == {"malformed", "empty", "ok"}

\* upstream error envelopes: does the body parse, and its error.code / error.status
Envelopes ==
    { [parses |-> TRUE,  code |-> 503, token |-> "UNAVAILABLE"],
      [parses |-> TRUE,  code |-> 503, token |-> "INTERNAL"],
      [parses |-> TRUE,  code |-> 500, token |-> "UNAVAILABLE"],
      [parses |-> FALSE, code |-> 0,   token |-> ""] }
Payload == [parses |-> TRUE, code |-> 0, token |-> ""]
Unavailable == [parses |-> TRUE, code |-> 503, token |-> "UNAVAILABLE"]
Unparseable == [parses |-> FALSE, code |-> 0, token |-> ""]
NoUpstream == [kind |-> "none", status |-> 0, body |-> Payload]
\* outcomes of client.Do and io.ReadAll in executeGeminiCall: the call fails,
\* reading the body fails, or a response with a status and a body arrives
\* (status 500 with each kind of body, and the provider's own 503)
UpstreamOutcomes ==
    { [kind |-> "transport", status |-> 0, body |-> Payload],
      [kind |-> "readfail",  status |-> 0, body |-> Payload],
      [kind |-> "response",  status |-> 200, body |-> Payload],
      [kind |-> "response",  status |-> 503, body |-> Unavailable] }
    \cup { [kind |-> "response", status |-> 500, body |-> e] : e \in Envelopes }

VARIABLES
    now,        \* the wall clock, in ticks
    store,      \* the Redis keyspace: key -> [val, exp]
    env,        \* process environment: is ARMY_ACCESS_KEY set
    redisOnce,  \* sync.Once of GetRedisClient: "new", "ok", "err"
    req,        \* per request: the goroutine's position and locals
    resp,       \* per request: the response written to the ResponseWriter
    hist,       \* per request: history of its store and upstream effects
    prior,      \* per key: successful requests counted before the first modelled one
    peak,       \* per identity: most requests ever in flight at once,
                \* .read counted from the client read, .admitted from the verdict
    conn,       \* the metadata of one *http.Request handed to GetClientIP
    clientIP,   \* what GetClientIP returned for conn
    ctxDone     \* per request: r.Context() is cancelled, the server having
                \* seen the client's connection close; "" while it is not,
                \* else whether client.Do had been called by then

vars == <<now, store, env, redisOnce, req, resp, hist, prior, peak, conn, clientIP,
          ctxDone>>

\* ------------------------------------------------------------------------
\* The counter store (Redis): GET, INCR, EXPIRE, and key expiry
\* ------------------------------------------------------------------------

\* getTodayKey: the UTC day of the clock value t
getTodayKey(t) == t \div DayLen

\* a key is live when it holds a value and its TTL has not run out
Live(st, k, t) == st[k].val > 0 /\ (st[k].exp = NoTTL \/ st[k].exp > t)

\* the value a successful GET returns; a missing key reads as 0 (redis.Nil)
GetVal(st, k, t) == IF Live(st, k, t) THEN st[k].val ELSE 0

\* the results client.Get(ctx, key).Int64() can produce: the value, redis.Nil
\* for a missing key, or a failure (store unreachable, value not an integer)
GetResults(st, k, t) ==
    { [err |-> IF Live(st, k, t) THEN "nil" ELSE "redis.Nil", val |-> GetVal(st, k, t)],
      [err |-> "fail", val |-> 0] }

\* INCR: adds one; a missing key is created with 1 and no TTL
IncrBy2(st, k, t) ==
    [st EXCEPT ![k] = IF Live(st, k, t) THEN [@ EXCEPT !.val = @ + 2]
                      ELSE [val |-> 2, exp |-> NoTTL]]
Incr(st, k, t) ==
    [st EXCEPT ![k] = IF Live(st, k, t) THEN [@ EXCEPT !.val = @ + 1]
                      ELSE [val |-> 1, exp |-> NoTTL]]

\* EXPIRE key ttl: sets the key's time to live, counted from now; no effect on
\* a missing key
ExpireIfUnset(st, k, t, ttl) ==
    [st EXCEPT ![k] = IF Live(st, k, t) /\ @.exp = NoTTL
                      THEN [@ EXCEPT !.exp = t + ttl] ELSE @]
Expire(st, k, t, ttl) ==
    [st EXCEPT ![k] = IF Live(st, k, t) THEN [@ EXCEPT !.exp = t + ttl] ELSE @]

\* the store drops the keys whose TTL has run out at time t
Purge(st, t) == [k \in Keys |-> IF Live(st, k, t) THEN st[k] ELSE Missing]

\* the four commands IncrementRateLimit queues on the pipeline, in order
PipelineLen == 4
PipelineCmd(st, i, ip, day, t) ==
    CASE i = 0 -> Incr(st, clientKey(ip, day), t)
      [] i = 1 -> Expire(st, clientKey(ip, day), t, RateLimitTTL)
      [] i = 2 -> Incr(st, globalKey(day), t)
      [] OTHER -> Expire(st, globalKey(day), t, RateLimitTTL)

\* ------------------------------------------------------------------------
\* The decisions of the handler's helper functions
\* ------------------------------------------------------------------------

\* validateMethod: only POST passes
validateMethodAny(method) == TRUE
validateMethod(method) == method = "POST"

\* the body of redisOnce.Do in GetRedisClient: REDIS_URL is set and parses
\* and the ping is answered, or redisErr is set
InitRedisOutcomes == {"ok", "err"}

\* CheckRateLimit: err != nil && err != redis.Nil
IsReadFailureNever(rd) == FALSE
IsReadFailure(rd) == rd.err # "nil" /\ rd.err # "redis.Nil"

\* CheckRateLimit: the two limit comparisons
AllowedNoClientLimit(clientCount, globalCount) ==
    ~(globalCount >= GlobalRateLimitPerDay)
Allowed(clientCount, globalCount) ==
    IF clientCount >= ClientRateLimitPerDay THEN FALSE
    ELSE IF globalCount >= GlobalRateLimitPerDay THEN FALSE
    ELSE TRUE

ClientLimitMsg == "Client rate limit exceeded. Maximum 5 requests per day."
GlobalLimitMsg == "Global rate limit exceeded. Please try again later."

\* checkRateLimits: which message a 429 carries
LimitMessageGlobalFirst(clientCount, globalCount) ==
    IF globalCount >= GlobalRateLimitPerDay THEN GlobalLimitMsg ELSE ClientLimitMsg
LimitMessage(clientCount, globalCount) ==
    IF clientCount >= ClientRateLimitPerDay THEN ClientLimitMsg ELSE GlobalLimitMsg

\* parseRequest: "" when the body is accepted, else the 400 message
parseRequestAcceptsEmpty(body) ==
    IF body = "malformed" THEN "Invalid request body" ELSE ""
parseRequest(body) ==
    IF body = "malformed" THEN "Invalid request body"
    ELSE IF body = "empty" THEN "Content is required"
    ELSE ""

\* response bodies
ErrorResponse(msg) == [kind |-> "error", msg |-> msg, raw |-> Payload]
Forwarded(b) == [kind |-> "upstream", msg |-> "", raw |-> b]
ProviderUnavailable ==
    [kind |-> "provider_unavailable",
     msg |-> "Our AI provider upstream is currently unavailable. Please try again in a couple minutes.",
     raw |-> Payload]
NoResp == [status |-> 0, body |-> ErrorResponse(""), hdrs |-> {}]

\* handleGeminiResponse: ok lets the handler go on to the ledger commit;
\* otherwise status and body are what it writes
handleGeminiResponseAlwaysOk(status, body) ==
    [ok |-> TRUE, status |-> status, body |-> Forwarded(body)]
handleGeminiResponseForwardAll(status, body) ==
    IF status = 200 THEN [ok |-> TRUE, status |-> 200, body |-> Forwarded(body)]
    ELSE [ok |-> FALSE, status |-> status, body |-> Forwarded(body)]
handleGeminiResponseCodeOnly(status, body) ==
    IF status = 200 THEN [ok |-> TRUE, status |-> 200, body |-> Forwarded(body)]
    ELSE IF body.parses /\ body.code = 503
         THEN [ok |-> FALSE, status |-> 503, body |-> ProviderUnavailable]
    ELSE [ok |-> FALSE, status |-> status, body |-> Forwarded(body)]
handleGeminiResponse(status, body) ==
    IF status = 200 THEN [ok |-> TRUE, status |-> 200, body |-> Forwarded(body)]
    ELSE IF body.parses /\ body.code = 503 /\ body.token = "UNAVAILABLE"
         THEN [ok |-> FALSE, status |-> 503, body |-> ProviderUnavailable]
    ELSE [ok |-> FALSE, status |-> status, body |-> Forwarded(body)]

\* incrementLimits: the error of IncrementRateLimit is logged and dropped, so
\* the handler always goes on to writeSuccessResponse
incrementLimitsFailClosed(err) == ~err
incrementLimits(err) == TRUE

\* the headers of a 429 (checkRateLimits) and of a 200 (writeSuccessResponse)
RejectHeadersNone == {}
RejectHeaders ==
    { <<"X-RateLimit-Client-Limit", ClientRateLimitPerDay>>,
      <<"X-RateLimit-Client-Remaining", 0>>,
      <<"X-RateLimit-Global-Limit", GlobalRateLimitPerDay>> }
SuccessHeadersCountsLeft(clientCount, globalCount) ==
    { <<"X-RateLimit-Client-Limit", ClientRateLimitPerDay>>,
      <<"X-RateLimit-Client-Remaining", ClientRateLimitPerDay - clientCount>>,
      <<"X-RateLimit-Global-Limit", GlobalRateLimitPerDay>>,
      <<"X-RateLimit-Global-Remaining", GlobalRateLimitPerDay - globalCount>> }
SuccessHeaders(clientCount, globalCount) ==
    { <<"X-RateLimit-Client-Limit", ClientRateLimitPerDay>>,
      <<"X-RateLimit-Client-Remaining", ClientRateLimitPerDay - clientCount - 1>>,
      <<"X-RateLimit-Global-Limit", GlobalRateLimitPerDay>>,
      <<"X-RateLimit-Global-Remaining", GlobalRateLimitPerDay - globalCount - 1>> }

\* ------------------------------------------------------------------------
\* GetClientIP
\* ------------------------------------------------------------------------

\* header values and addresses are strings of at most MaxStrLen characters:
\* "a" stands for a character of an address, "1" for a digit of a port
Strings(chars, n) == UNION { [1..k -> chars] : k \in 0..n }
XffValues == Strings({"a", " ", ","}, MaxStrLen)
XriValues == {<<>>, <<"a">>}
RemoteAddrs == Strings({"a", ":", "1"}, MaxStrLen)
Conns == [xff : XffValues, xri : XriValues, remoteAddr : RemoteAddrs]
NoConn == [xff |-> <<>>, xri |-> <<>>, remoteAddr |-> <<>>]
NoIP == <<"?">>

\* strings.Index(s, ch), counted from 1; 0 when ch is not in s
Index(s, ch) ==
    IF \E i \in 1..Len(s) : s[i] = ch
    THEN CHOOSE i \in 1..Len(s) : s[i] = ch /\ \A j \in 1..(i - 1) : s[j] # ch
    ELSE 0

\* strings.LastIndex(s, ch), counted from 1; 0 when ch is not in s
LastIndex(s, ch) ==
    IF \E i \in 1..Len(s) : s[i] = ch
    THEN CHOOSE i \in 1..Len(s) : s[i] = ch /\ \A j \in (i + 1)..Len(s) : s[j] # ch
    ELSE 0

\* strings.Split(s, ",")[0]: what stands before the first comma
FirstPart(s) ==
    IF Index(s, ",") = 0 THEN s ELSE SubSeq(s, 1, Index(s, ",") - 1)

\* strings.TrimSpace: leading and trailing white space removed
RECURSIVE TrimSpace(_)
TrimSpace(s) ==
    IF s = <<>> THEN s
    ELSE IF s[1] = " " THEN TrimSpace(Tail(s))
    ELSE IF s[Len(s)] = " " THEN TrimSpace(SubSeq(s, 1, Len(s) - 1))
    ELSE s

\* GetClientIP
GetClientIP(r) ==
    IF r.xff # <<>> THEN TrimSpace(FirstPart(r.xff))
    ELSE IF r.xri # <<>> THEN r.xri
    ELSE LET colonIdx == LastIndex(r.remoteAddr, ":") IN
         IF colonIdx # 0 THEN SubSeq(r.remoteAddr, 1, colonIdx - 1)
         ELSE r.remoteAddr

\* ------------------------------------------------------------------------
\* State
\* ------------------------------------------------------------------------

\* counts the store may hold when the process starts: earlier successes of
\* the identity "ip1" and of identities outside Clients
InitCounts ==
    { <<0, 0>>,
      <<ClientRateLimitPerDay - 1, 0>>,
      <<ClientRateLimitPerDay, GlobalRateLimitPerDay - ClientRateLimitPerDay>> }

NewRequest ==
    [pc |-> "idle", method |-> "", ip |-> "", body |-> "",
     today |-> 0, clientErr |-> "", clientCount |-> 0,
     globalErr |-> "", globalCount |-> 0, allowed |-> FALSE,
     upstream |-> NoUpstream, commitDay |-> 0, pipeIdx |-> 0, commitErr |-> FALSE]

\* steps: the collaborator calls of the request, in the order it made them;
\* afterC, afterG: the counter values right after the request's own INCRs
\* (NotApplied before); racedC, racedG: another request's INCR of the same
\* key ran between this request's read of the key and its own INCR of it
NotApplied == 0 - 1
NewHist ==
    [upCalls |-> 0, steps |-> <<>>, seenC |-> {}, seenG |-> {},
     afterC |-> NotApplied, afterG |-> NotApplied,
     racedC |-> FALSE, racedG |-> FALSE]

\* a key written at time 0 of day 0 by an increment that set its TTL
Counted(n) == IF n = 0 THEN Missing ELSE [val |-> n, exp |-> RateLimitTTL]

Init ==
    /\ now = 0
    /\ \E n \in InitCounts :
         /\ prior = [k \in Keys |->
                       IF k = clientKey("ip1", 0) THEN n[1]
                       ELSE IF k = globalKey(0) THEN n[1] + n[2]
                       ELSE 0]
         /\ store = [k \in Keys |-> Counted(prior[k])]
    /\ env \in [armyKey : BOOLEAN]
    /\ redisOnce = "new"
    /\ req = [r \in Requests |-> NewRequest]
    /\ resp = [r \in Requests |-> NoResp]
    /\ hist = [r \in Requests |-> NewHist]
    /\ peak = [c \in Clients |-> [read |-> 0, admitted |-> 0]]
    /\ conn = NoConn
    /\ clientIP = NoIP
    /\ ctxDone = [r \in Requests |-> ""]

\* requests of identity c that CheckRateLimit has allowed and whose
\* IncrementRateLimit has not returned yet
Admitted(rq, c) ==
    { r \in Requests :
        /\ rq[r].ip = c
        /\ rq[r].allowed
        /\ rq[r].pc \in {"parseRequest", "executeGeminiCall",
                         "handleGeminiResponse", "incrementLimits"} }

\* requests of identity c that have read a client count under the limit and
\* whose client-scope increment has not been applied yet
InFlight(rq, c) ==
    { r \in Requests :
        /\ rq[r].ip = c
        /\ rq[r].clientCount < ClientRateLimitPerDay
        /\ rq[r].pc \in {"checkGlobal", "parseRequest", "executeGeminiCall",
                         "handleGeminiResponse", "incrementLimits"}
        /\ rq[r].pipeIdx = 0 }

\* the handler writes status, body and headers and returns
Respond(r, status, body, hdrs) ==
    /\ resp' = [resp EXCEPT ![r] = [status |-> status, body |-> body, hdrs |-> hdrs]]
    /\ req' = [req EXCEPT ![r].pc = "done"]

\* ------------------------------------------------------------------------
\* Handler, one action per step
\* ------------------------------------------------------------------------

\* a request arrives and validateMethod runs; requests are numbered in the
\* order they arrive
ValidateMethod(r) ==
    /\ req[r].pc = "idle"
    /\ \A q \in Requests : q < r => req[q].pc # "idle"
    /\ \E m \in Methods :
         IF validateMethod(m)
         THEN /\ req' = [req EXCEPT ![r].pc = "getRedisClient", ![r].method = m]
              /\ UNCHANGED resp
         ELSE /\ req' = [req EXCEPT ![r].pc = "done", ![r].method = m]
              /\ resp' = [resp EXCEPT ![r] =
                            [status |-> 405, body |-> ErrorResponse("Method not allowed"),
                             hdrs |-> {}]]
    /\ UNCHANGED <<now, store, env, redisOnce, hist, prior, peak>>
    /\ UNCHANGED <<conn, clientIP, ctxDone>>

\* getRedisClient: shared.GetRedisClient runs the initialisation once
GetRedisClientRetry(r) ==
    /\ req[r].pc = "getRedisClient"
    /\ IF redisOnce \in {"new", "err"} THEN redisOnce' \in InitRedisOutcomes
                                        ELSE redisOnce' = redisOnce
    /\ IF redisOnce' = "err"
       THEN Respond(r, 500, ErrorResponse("Internal server error"), {})
       ELSE /\ req' = [req EXCEPT ![r].pc = "checkClient"]
            /\ UNCHANGED resp
    /\ UNCHANGED <<now, store, env, hist, prior, peak>>
    /\ UNCHANGED <<conn, clientIP, ctxDone>>
GetRedisClient(r) ==
    /\ req[r].pc = "getRedisClient"
    /\ IF redisOnce = "new" THEN redisOnce' \in InitRedisOutcomes
                            ELSE redisOnce' = redisOnce
    /\ IF redisOnce' = "err"
       THEN Respond(r, 500, ErrorResponse("Internal server error"), {})
       ELSE /\ req' = [req EXCEPT ![r].pc = "checkClient"]
            /\ UNCHANGED resp
    /\ UNCHANGED <<now, store, env, hist, prior, peak>>
    /\ UNCHANGED <<conn, clientIP, ctxDone>>

\* requests of identity ip whose pipeline has executed command i for day
Applied(i, ip, day) ==
    { q \in Requests : /\ req[q].pipeIdx > i
                       /\ req[q].commitDay = day
                       /\ req[q].ip = ip }

\* checkRateLimits resolves the identity (GetClientIP); CheckRateLimit
\* computes today's key and reads the client key
CheckClientGet(r) ==
    /\ req[r].pc = "checkClient"
    /\ LET today == getTodayKey(now) IN
       \E c \in Clients : \E rd \in GetResults(store, clientKey(c, today), now) :
         IF IsReadFailure(rd)
         THEN /\ req' = [req EXCEPT ![r].pc = "done", ![r].ip = c, ![r].today = today,
                                    ![r].clientErr = rd.err]
              /\ resp' = [resp EXCEPT ![r] =
                            [status |-> 500,
                             body |-> ErrorResponse("Internal server error"),
                             hdrs |-> {}]]
              /\ hist' = [hist EXCEPT ![r].steps = Append(@, "CheckRateLimit")]
              /\ UNCHANGED peak
         ELSE /\ req' = [req EXCEPT ![r].pc = "checkGlobal", ![r].ip = c,
                                    ![r].today = today, ![r].clientErr = rd.err,
                                    ![r].clientCount = rd.val]
              /\ hist' = [hist EXCEPT ![r].seenC = Applied(0, c, today),
                                      ![r].steps = Append(@, "CheckRateLimit")]
              /\ peak' = [peak EXCEPT ![c].read =
                            LET n == Cardinality(InFlight(req', c))
                            IN  IF n > @ THEN n ELSE @]
              /\ UNCHANGED resp
    /\ UNCHANGED <<now, store, env, redisOnce, prior>>
    /\ UNCHANGED <<conn, clientIP, ctxDone>>

\* CheckRateLimit, second read and the decision; checkRateLimits writes the 429
CheckGlobalGet(r) ==
    /\ req[r].pc = "checkGlobal"
    /\ \E rd \in GetResults(store, globalKey(req[r].today), now) :
         IF IsReadFailure(rd)
         THEN /\ req' = [req EXCEPT ![r].pc = "done", ![r].globalErr = rd.err]
              /\ resp' = [resp EXCEPT ![r] =
                            [status |-> 500,
                             body |-> ErrorResponse("Internal server error"),
                             hdrs |-> {}]]
              /\ UNCHANGED <<hist, peak>>
         ELSE LET cc == req[r].clientCount
                  gc == rd.val
                  seen == [hist EXCEPT ![r].seenG = Applied(2, req[r].ip, req[r].today)]
              IN  IF Allowed(cc, gc)
                  THEN /\ req' = [req EXCEPT ![r].pc = "parseRequest",
                                             ![r].globalErr = rd.err,
                                             ![r].globalCount = gc,
                                             ![r].allowed = TRUE]
                       /\ hist' = seen
                       /\ peak' = [peak EXCEPT ![req[r].ip].admitted =
                                     LET n == Cardinality(Admitted(req', req[r].ip))
                                     IN  IF n > @ THEN n ELSE @]
                       /\ UNCHANGED resp
                  ELSE /\ req' = [req EXCEPT ![r].pc = "done", ![r].globalErr = rd.err,
                                             ![r].globalCount = gc]
                       /\ resp' = [resp EXCEPT ![r] =
                                     [status |-> 429,
                                      body |-> ErrorResponse(LimitMessage(cc, gc)),
                                      hdrs |-> RejectHeaders]]
                       /\ hist' = seen
                       /\ UNCHANGED peak
    /\ UNCHANGED <<now, store, env, redisOnce, prior>>
    /\ UNCHANGED <<conn, clientIP, ctxDone>>

\* parseRequest reads r.Body off the connection and decodes it, then
\* createGeminiPayload (marshalling a string cannot fail)
ParseRequest(r) ==
    /\ req[r].pc = "parseRequest"
    /\ \E b \in Bodies :
         IF parseRequest(b) # ""
         THEN /\ req' = [req EXCEPT ![r].pc = "done", ![r].body = b]
              /\ resp' = [resp EXCEPT ![r] =
                            [status |-> 400, body |-> ErrorResponse(parseRequest(b)),
                             hdrs |-> {}]]
         ELSE /\ req' = [req EXCEPT ![r].pc = "executeGeminiCall", ![r].body = b]
              /\ UNCHANGED resp
    /\ UNCHANGED <<now, store, env, redisOnce, hist, prior, peak>>
    /\ UNCHANGED <<conn, clientIP, ctxDone>>

\* executeGeminiCall: the access key, the call, reading the body
ExecuteGeminiCall(r) ==
    /\ req[r].pc = "executeGeminiCall"
    /\ IF ~env.armyKey
       THEN /\ Respond(r, 500, ErrorResponse("Server configuration error"), {})
            /\ UNCHANGED hist
       ELSE /\ hist' = [hist EXCEPT ![r].upCalls = @ + 1,
                                    ![r].steps = Append(@, "client.Do")]
            /\ \E o \in UpstreamOutcomes :
                 CASE o.kind = "transport" ->
                        /\ req' = [req EXCEPT ![r].pc = "done", ![r].upstream = o]
                        /\ resp' = [resp EXCEPT ![r] =
                                      [status |-> 502,
                                       body |-> ErrorResponse("Failed to call AI service"),
                                       hdrs |-> {}]]
                   [] o.kind = "readfail" ->
                        /\ req' = [req EXCEPT ![r].pc = "done", ![r].upstream = o]
                        /\ resp' = [resp EXCEPT ![r] =
                                      [status |-> 500,
                                       body |-> ErrorResponse("Failed to read AI response"),
                                       hdrs |-> {}]]
                   [] OTHER ->
                        /\ req' = [req EXCEPT ![r].pc = "handleGeminiResponse",
                                              ![r].upstream = o]
                        /\ UNCHANGED resp
    /\ UNCHANGED <<now, store, env, redisOnce, prior, peak>>
    /\ UNCHANGED <<conn, clientIP, ctxDone>>

\* handleGeminiResponse: classify the upstream response
HandleGeminiResponse(r) ==
    /\ req[r].pc = "handleGeminiResponse"
    /\ LET h == handleGeminiResponse(req[r].upstream.status, req[r].upstream.body) IN
         IF h.ok
         THEN /\ req' = [req EXCEPT ![r].pc = "incrementLimits"]
              /\ UNCHANGED resp
         ELSE Respond(r, h.status, h.body, {})
    /\ UNCHANGED <<now, store, env, redisOnce, hist, prior, peak>>
    /\ UNCHANGED <<conn, clientIP, ctxDone>>

\* where the handler goes once IncrementRateLimit has returned err
AfterCommit(r, rq, err) ==
    IF incrementLimits(err)
    THEN /\ req' = [rq EXCEPT ![r].pc = "writeSuccessResponse"]
         /\ UNCHANGED resp
    ELSE /\ req' = [rq EXCEPT ![r].pc = "done"]
         /\ resp' = [resp EXCEPT ![r] =
                       [status |-> 500, body |-> ErrorResponse("Internal server error"),
                        hdrs |-> {}]]

\* request q has read the client key of ip and day, was not turned away and
\* has not run its own INCR of a client key yet
HoldsClientCount(q, ip, day) ==
    /\ req[q].ip = ip
    /\ req[q].today = day
    /\ req[q].pc \in {"checkGlobal", "parseRequest", "executeGeminiCall",
                      "handleGeminiResponse", "incrementLimits"}
    /\ req[q].pipeIdx = 0

\* request q has read the global key of day, was allowed and has not run
\* its own INCR of a global key yet
HoldsGlobalCount(q, day) ==
    /\ req[q].today = day
    /\ req[q].allowed
    /\ req[q].pc \in {"parseRequest", "executeGeminiCall",
                      "handleGeminiResponse", "incrementLimits"}
    /\ req[q].pipeIdx <= 2

\* IncrementRateLimit: the store executes the next command of the pipeline.
\* The pipeline is not a MULTI/EXEC transaction: commands of other
\* connections may run between two of its commands.
PipelineStep(r) ==
    /\ req[r].pc = "incrementLimits"
    /\ req[r].pipeIdx < PipelineLen
    /\ LET i == req[r].pipeIdx
           day == IF i = 0 THEN getTodayKey(now) ELSE req[r].commitDay
           rq == [req EXCEPT ![r].commitDay = day, ![r].pipeIdx = i + 1]
       IN  /\ store' = PipelineCmd(store, i, req[r].ip, day, now)
           /\ hist' = [q \in Requests |->
                         IF q = r
                         THEN IF i = 0
                              THEN [hist[q] EXCEPT !.afterC =
                                      GetVal(store', clientKey(req[r].ip, day), now),
                                                   !.steps =
                                      Append(@, "IncrementRateLimit")]
                              ELSE IF i = 2
                              THEN [hist[q] EXCEPT !.afterG =
                                      GetVal(store', globalKey(day), now)]
                              ELSE hist[q]
                         ELSE IF i = 0 /\ HoldsClientCount(q, req[r].ip, day)
                              THEN [hist[q] EXCEPT !.racedC = TRUE]
                              ELSE IF i = 2 /\ HoldsGlobalCount(q, day)
                              THEN [hist[q] EXCEPT !.racedG = TRUE]
                              ELSE hist[q]]
           /\ IF i + 1 = PipelineLen
              THEN AfterCommit(r, rq, FALSE)
              ELSE req' = rq /\ UNCHANGED resp
    /\ UNCHANGED <<now, env, redisOnce, prior, peak>>
    /\ UNCHANGED <<conn, clientIP, ctxDone>>

\* IncrementRateLimit: the connection fails; the commands not yet executed
\* are lost and pipe.Exec returns an error
PipelineFail(r) ==
    /\ req[r].pc = "incrementLimits"
    /\ req[r].pipeIdx < PipelineLen
    /\ LET day == IF req[r].pipeIdx = 0 THEN getTodayKey(now) ELSE req[r].commitDay
       IN  AfterCommit(r, [req EXCEPT ![r].commitDay = day, ![r].commitErr = TRUE], TRUE)
    /\ hist' = IF req[r].pipeIdx = 0
               THEN [hist EXCEPT ![r].steps = Append(@, "IncrementRateLimit")]
               ELSE hist
    /\ UNCHANGED <<now, store, env, redisOnce, prior, peak>>
    /\ UNCHANGED <<conn, clientIP, ctxDone>>

\* writeSuccessResponse
WriteSuccessResponse(r) ==
    /\ req[r].pc = "writeSuccessResponse"
    /\ Respond(r, 200, Forwarded(req[r].upstream.body),
               SuccessHeaders(req[r].clientCount, req[r].globalCount))
    /\ UNCHANGED <<now, store, env, redisOnce, hist, prior, peak>>
    /\ UNCHANGED <<conn, clientIP, ctxDone>>

\* time passes; the store drops the keys whose TTL has run out
Tick ==
    /\ now < MaxTime
    /\ now' = now + 1
    /\ store' = Purge(store, now + 1)
    /\ UNCHANGED <<env, redisOnce, req, resp, hist, prior, peak>>
    /\ UNCHANGED <<conn, clientIP, ctxDone>>

Next ==
    \/ \E r \in Arrivals : ValidateMethod(r)
    \/ \E r \in Requests : GetRedisClient(r)
    \/ \E r \in Requests : CheckClientGet(r)
    \/ \E r \in Requests : CheckGlobalGet(r)
    \/ \E r \in Requests : ParseRequest(r)
    \/ \E r \in Requests : ExecuteGeminiCall(r)
    \/ \E r \in Requests : HandleGeminiResponse(r)
    \/ \E r \in Requests : PipelineStep(r)
    \/ \E r \in Requests : PipelineFail(r)
    \/ \E r \in Requests : WriteSuccessResponse(r)
    \/ Tick

Spec == Init /\ [][Next]_vars

\* Requests handled one at a time: a request arrives only when no other
\* request is being handled
SeqValidateMethod(r) ==
    /\ \A q \in Requests \ {r} : req[q].pc \in {"idle", "done"}
    /\ ValidateMethod(r)

NextSeq ==
    \/ \E r \in Arrivals : SeqValidateMethod(r)
    \/ \E r \in Requests : GetRedisClient(r)
    \/ \E r \in Requests : CheckClientGet(r)
    \/ \E r \in Requests : CheckGlobalGet(r)
    \/ \E r \in Requests : ParseRequest(r)
    \/ \E r \in Requests : ExecuteGeminiCall(r)
    \/ \E r \in Requests : HandleGeminiResponse(r)
    \/ \E r \in Requests : PipelineStep(r)
    \/ \E r \in Requests : PipelineFail(r)
    \/ \E r \in Requests : WriteSuccessResponse(r)
    \/ Tick

SpecSeq == Init /\ [][NextSeq]_vars

\* A burst of BurstSize valid POSTs from one identity within one clock
\* tick, the store reachable
BurstValidateMethod(r) ==
    /\ ValidateMethod(r)
    /\ req'[r].method = "POST"

BurstGetRedisClient(r) ==
    /\ GetRedisClient(r)
    /\ redisOnce' = "ok"

BurstCheckClientGet(r) ==
    /\ CheckClientGet(r)
    /\ req'[r].ip = "ip1"

BurstParseRequest(r) ==
    /\ ParseRequest(r)
    /\ req'[r].body = "ok"

\* the upstream answers 200, answers with its 503 or cannot be reached
BurstExecuteGeminiCall(r) ==
    /\ ExecuteGeminiCall(r)
    /\ \/ req'[r].upstream.kind \in {"none", "transport"}
       \/ req'[r].upstream.status = 200
       \/ req'[r].upstream.status = 503

NextBurst ==
    \/ \E r \in Requests : BurstValidateMethod(r)
    \/ \E r \in Requests : BurstGetRedisClient(r)
    \/ \E r \in Requests : BurstCheckClientGet(r)
    \/ \E r \in Requests : CheckGlobalGet(r)
    \/ \E r \in Requests : BurstParseRequest(r)
    \/ \E r \in Requests : BurstExecuteGeminiCall(r)
    \/ \E r \in Requests : HandleGeminiResponse(r)
    \/ \E r \in Requests : PipelineStep(r)
    \/ \E r \in Requests : PipelineFail(r)
    \/ \E r \in Requests : WriteSuccessResponse(r)

SpecBurst == Init /\ [][NextBurst]_vars

\* The client of request r closes its connection while the handler runs:
\* net/http cancels r.Context(). No statement of Handler reads r.Context():
\* the store calls run under context.Background() and the upstream request
\* is built by http.NewRequest, without a context.
Disconnect(r) ==
    /\ req[r].pc \notin {"idle", "done"}
    /\ ctxDone[r] = ""
    /\ ctxDone' = [ctxDone EXCEPT ![r] =
                      IF hist[r].upCalls = 0 THEN "beforeDispatch" ELSE "afterDispatch"]
    /\ UNCHANGED <<now, store, env, redisOnce, req, resp, hist, prior, peak,
                   conn, clientIP>>

\* requests handled one at a time, each client free to disconnect
NextCancel ==
    \/ \E r \in Arrivals : SeqValidateMethod(r)
    \/ \E r \in Requests : GetRedisClient(r)
    \/ \E r \in Requests : CheckClientGet(r)
    \/ \E r \in Requests : CheckGlobalGet(r)
    \/ \E r \in Requests : ParseRequest(r)
    \/ \E r \in Requests : ExecuteGeminiCall(r)
    \/ \E r \in Requests : HandleGeminiResponse(r)
    \/ \E r \in Requests : PipelineStep(r)
    \/ \E r \in Requests : PipelineFail(r)
    \/ \E r \in Requests : WriteSuccessResponse(r)
    \/ \E r \in Requests : Disconnect(r)
    \/ Tick

SpecCancel == Init /\ [][NextCancel]_vars

\* GetClientIP applied to every request metadata on its own
InitIP ==
    /\ now = 0
    /\ prior = [k \in Keys |-> 0]
    /\ store = [k \in Keys |-> Missing]
    /\ env = [armyKey |-> TRUE]
    /\ redisOnce = "new"
    /\ req = [r \in Requests |-> NewRequest]
    /\ resp = [r \in Requests |-> NoResp]
    /\ hist = [r \in Requests |-> NewHist]
    /\ peak = [c \in Clients |-> [read |-> 0, admitted |-> 0]]
    /\ conn \in Conns
    /\ clientIP = NoIP
    /\ ctxDone = [r \in Requests |-> ""]

ResolveClientIP ==
    /\ clientIP = NoIP
    /\ clientIP' = GetClientIP(conn)
    /\ UNCHANGED <<now, store, env, redisOnce, req, resp, hist, prior, peak, conn,
                   ctxDone>>

NextIP == ResolveClientIP

SpecIP == InitIP /\ [][NextIP]_vars

\* ------------------------------------------------------------------------
\* Vocabulary of the properties
\* ------------------------------------------------------------------------

\* the upstream returned status 200 to request r
UpstreamSuccess(r) ==
    req[r].upstream.kind = "response" /\ req[r].upstream.status = 200

\* request r has left the handler
Done(r) == req[r].pc = "done"

\* both admission reads of r succeeded and CheckRateLimit gave its verdict
Decided(r) == req[r].allowed \/ (Done(r) /\ resp[r].status = 429)

\* r's pipeline has executed its INCR of the client key / of the global key
ClientIncremented(r) == req[r].pipeIdx > 0
GlobalIncremented(r) == req[r].pipeIdx > 2

\* ------------------------------------------------------------------------
\* C1
\* ------------------------------------------------------------------------

\* C1: a request whose upstream outcome is not a confirmed success (any
\* non-200 status, provider unavailable, transport failure, failure to read
\* the body, or no upstream call at all) never reaches IncrementRateLimit and
\* has incremented neither the client-scope nor the global-scope counter.
C1_NoIncrementWithoutSuccess ==
    \A r \in Requests :
        ~UpstreamSuccess(r) =>
            /\ req[r].pc \notin {"incrementLimits", "writeSuccessResponse"}
            /\ ~ClientIncremented(r)
            /\ ~GlobalIncremented(r)
            /\ ~req[r].commitErr

\* a request answered with a non-200 upstream status is done, while another
\* request has incremented the counters
C1_Witness ==
    \E r, q \in Requests :
        /\ Done(r)
        /\ req[r].upstream.kind = "response"
        /\ req[r].upstream.status # 200
        /\ GlobalIncremented(q)

\* ------------------------------------------------------------------------
\* C2
\* ------------------------------------------------------------------------

\* C2: a request whose body is malformed or whose content is empty has
\* executed no command of the increment pipeline, so it leaves both counters
\* as they were, whatever other requests did.
C2_NoIncrementOnInvalidBody ==
    \A r \in Requests :
        req[r].body \in {"malformed", "empty"} =>
            /\ ~ClientIncremented(r)
            /\ ~GlobalIncremented(r)
            /\ req[r].pipeIdx = 0

\* a request with empty content has terminated while another request has
\* incremented the counters
C2_Witness ==
    \E r, q \in Requests :
        /\ Done(r)
        /\ req[r].body = "empty"
        /\ resp[r].status = 400
        /\ GlobalIncremented(q)

\* ------------------------------------------------------------------------
\* C3
\* ------------------------------------------------------------------------

\* the requests of r's identity that were handled before r, got status 200
\* from the upstream and were answered with 200
EarlierSuccesses(r) ==
    { q \in Requests : /\ q < r
                       /\ Done(q)
                       /\ req[q].ip = req[r].ip
                       /\ UpstreamSuccess(q)
                       /\ resp[q].status = 200 }

\* N: the successful requests of r's identity on r's day before r
SuccessesBefore(r) ==
    prior[clientKey(req[r].ip, req[r].today)] + Cardinality(EarlierSuccesses(r))

\* r and everything handled before it fall in one UTC day, and each earlier
\* success was committed in full
OneDayAllCommitted(r) ==
    /\ req[r].today = 0
    /\ getTodayKey(now) = 0
    /\ \A q \in Requests :
         (q < r /\ UpstreamSuccess(q)) =>
             /\ req[q].pipeIdx = PipelineLen
             /\ ~req[q].commitErr
             /\ req[q].commitDay = 0

\* C3 as stated: handled one at a time within one UTC day with every success
\* committed, the request that follows N < ClientRateLimitPerDay successes
\* of its identity is admitted, and the one that follows
\* ClientRateLimitPerDay successes is rejected with 429 and the client
\* message.
C3_Original ==
    \A r \in Requests :
        (req[r].pc \notin {"idle", "validateMethod", "getRedisClient",
                           "checkClient", "checkGlobal"}
         /\ req[r].clientErr \in {"nil", "redis.Nil"}
         /\ req[r].globalErr \in {"nil", "redis.Nil"}
         /\ OneDayAllCommitted(r)) =>
            /\ SuccessesBefore(r) < ClientRateLimitPerDay => req[r].allowed
            /\ SuccessesBefore(r) >= ClientRateLimitPerDay =>
                   /\ Done(r)
                   /\ resp[r].status = 429
                   /\ resp[r].body = ErrorResponse(ClientLimitMsg)

\* C3 amended: the same, for a request whose two admission reads succeed and
\* that reads a global count below GlobalRateLimitPerDay when it follows
\* N < ClientRateLimitPerDay successes.
C3_SequentialAdmission ==
    \A r \in Requests :
        (Decided(r) /\ OneDayAllCommitted(r)) =>
            /\ req[r].clientCount = SuccessesBefore(r)
            /\ (SuccessesBefore(r) < ClientRateLimitPerDay
                /\ req[r].globalCount < GlobalRateLimitPerDay) => req[r].allowed
            /\ SuccessesBefore(r) >= ClientRateLimitPerDay =>
                   /\ ~req[r].allowed
                   /\ Done(r)
                   /\ resp[r].status = 429
                   /\ resp[r].body = ErrorResponse(ClientLimitMsg)

\* the identity had ClientRateLimitPerDay - 1 successes, its next request was
\* admitted and committed, and the one after that was rejected
C3_Witness ==
    \E q, r \in Requests :
        /\ q < r
        /\ OneDayAllCommitted(r)
        /\ req[q].ip = req[r].ip
        /\ req[q].allowed
        /\ SuccessesBefore(q) = ClientRateLimitPerDay - 1
        /\ resp[q].status = 200
        /\ SuccessesBefore(r) = ClientRateLimitPerDay
        /\ resp[r].status = 429

\* ------------------------------------------------------------------------
\* C4
\* ------------------------------------------------------------------------

\* C4: a request that reads a global count >= GlobalRateLimitPerDay is
\* rejected with 429 whatever client count it read, with the global message
\* when that client count is below ClientRateLimitPerDay and the client
\* message otherwise.
C4_GlobalLimitRejects ==
    \A r \in Requests :
        (Decided(r) /\ req[r].globalCount >= GlobalRateLimitPerDay) =>
            /\ ~req[r].allowed
            /\ Done(r)
            /\ resp[r].status = 429
            /\ resp[r].body =
                 ErrorResponse(IF req[r].clientCount < ClientRateLimitPerDay
                               THEN GlobalLimitMsg ELSE ClientLimitMsg)

\* one request was rejected on the global limit alone, another with both
\* limits reached
C4_Witness ==
    \E r, q \in Requests :
        /\ resp[r].status = 429
        /\ req[r].globalCount >= GlobalRateLimitPerDay
        /\ req[r].clientCount < ClientRateLimitPerDay
        /\ resp[r].body = ErrorResponse(GlobalLimitMsg)
        /\ resp[q].status = 429
        /\ req[q].globalCount >= GlobalRateLimitPerDay
        /\ req[q].clientCount >= ClientRateLimitPerDay
        /\ resp[q].body = ErrorResponse(ClientLimitMsg)

\* ------------------------------------------------------------------------
\* C5
\* ------------------------------------------------------------------------

\* C5 as stated: under any interleaving, a client-scope counter never
\* exceeds ClientRateLimitPerDay by more than the number of requests of that
\* identity that were in flight together, a request being in flight from
\* the moment CheckRateLimit allows it until its IncrementRateLimit returns.
C5_Original ==
    \A c \in Clients, d \in Days :
        GetVal(store, clientKey(c, d), now)
            <= ClientRateLimitPerDay + peak[c].admitted

\* C5: under any interleaving, a client-scope counter never exceeds
\* ClientRateLimitPerDay by more than the number of requests of that
\* identity that were in flight together, a request being in flight from
\* its read of a client count under the limit until its client increment.
C5_OvershootBounded ==
    \A c \in Clients, d \in Days :
        GetVal(store, clientKey(c, d), now)
            <= ClientRateLimitPerDay + peak[c].read

\* requests of one identity read the last free slot together, were allowed
\* one after the other and all incremented: the counter stands above the
\* limit by more than were ever allowed at once
C5_Witness ==
    \E c \in Clients, d \in Days :
        /\ GetVal(store, clientKey(c, d), now) > ClientRateLimitPerDay + 1
        /\ peak[c].read > 2
        /\ peak[c].admitted = 1
        /\ \E q, r \in Requests :
             /\ q # r
             /\ req[q].ip = c /\ req[r].ip = c
             /\ req[q].clientCount = ClientRateLimitPerDay - 1
             /\ req[r].clientCount = ClientRateLimitPerDay - 1
             /\ ClientIncremented(q) /\ ClientIncremented(r)

\* ------------------------------------------------------------------------
\* C6
\* ------------------------------------------------------------------------

\* C6: the commit is one atomic step for every reader: a CheckRateLimit that
\* has read the client key and then the global key saw, for each request of
\* its identity and day, that request's increment in both counters or in
\* neither.
C6_CommitSeenAtomically ==
    \A q \in Requests : Decided(q) => hist[q].seenC = hist[q].seenG

\* ------------------------------------------------------------------------
\* C7
\* ------------------------------------------------------------------------

\* C7: a request one of whose admission reads failed is not admitted: it ends
\* with status 500 and the internal-error body, not a 429, with no upstream
\* call and no pipeline command run; a missing key is no failure and is read
\* as count 0.
C7_ReadFailureFailsClosed ==
    \A r \in Requests :
        /\ (req[r].clientErr = "fail" \/ req[r].globalErr = "fail") =>
              /\ Done(r)
              /\ ~req[r].allowed
              /\ resp[r].status = 500
              /\ resp[r].body = ErrorResponse("Internal server error")
              /\ hist[r].upCalls = 0
              /\ req[r].pipeIdx = 0
        /\ (req[r].clientErr = "redis.Nil"
            /\ req[r].globalErr \in {"nil", "redis.Nil"}) =>
              /\ Decided(r)
              /\ req[r].clientCount = 0
        /\ (req[r].clientErr \in {"nil", "redis.Nil"}
            /\ req[r].globalErr = "redis.Nil") =>
              /\ Decided(r)
              /\ req[r].globalCount = 0

\* one request failed on its second read after a successful first one, and
\* another was admitted on two missing keys
C7_Witness ==
    \E r, q \in Requests :
        /\ req[r].clientErr = "nil"
        /\ req[r].globalErr = "fail"
        /\ resp[r].status = 500
        /\ req[q].clientErr = "redis.Nil"
        /\ req[q].globalErr = "redis.Nil"
        /\ req[q].allowed

\* ------------------------------------------------------------------------
\* C8
\* ------------------------------------------------------------------------

\* C8: a request whose commit failed after an upstream 200 still goes on to
\* writeSuccessResponse and ends with status 200, the upstream body as the
\* payload and the headers of a success.
C8_CommitFailureStill200 ==
    \A r \in Requests :
        req[r].commitErr =>
            /\ UpstreamSuccess(r)
            /\ req[r].pc \in {"writeSuccessResponse", "done"}
            /\ Done(r) =>
                 /\ resp[r].status = 200
                 /\ resp[r].body = Forwarded(req[r].upstream.body)
                 /\ resp[r].hdrs = SuccessHeaders(req[r].clientCount, req[r].globalCount)

\* a request whose pipeline failed after the client increment was answered 200
C8_Witness ==
    \E r \in Requests :
        /\ req[r].commitErr
        /\ req[r].pipeIdx = 1
        /\ Done(r)
        /\ resp[r].status = 200

\* ------------------------------------------------------------------------
\* C9
\* ------------------------------------------------------------------------

\* does the key k count request r: k is the global key or the client key of
\* r's identity
InScope(r, k) == k[1] = Global \/ k[1] = req[r].ip

\* the requests that got status 200 from the upstream and whose commit was
\* made with the day token of key k
SucceededOn(k) ==
    { r \in Requests : /\ UpstreamSuccess(r)
                       /\ req[r].pc \in {"incrementLimits", "writeSuccessResponse", "done"}
                       /\ (req[r].pipeIdx > 0 \/ req[r].commitErr)
                       /\ req[r].commitDay = k[2]
                       /\ InScope(r, k) }

\* the number of confirmed-successful requests of key k's scope and day
Successes(k) == prior[k] + Cardinality(SucceededOn(k))

\* no request is between its upstream success and the end of its commit
NoneCommitting == \A r \in Requests : req[r].pc # "incrementLimits"

\* C9 as stated: when no request is between upstream success and commit, the
\* counter of each scope for the current UTC day equals the number of
\* confirmed-successful requests of that scope and day.
C9_Original ==
    NoneCommitting =>
        \A k \in Keys :
            k[2] = getTodayKey(now) => GetVal(store, k, now) = Successes(k)

\* C9 amended: a counter never exceeds the number of confirmed-successful
\* requests of its scope and day, and when nothing is committing and no
\* commit has failed, the current day's counters equal that number.
C9_CountReflectsSuccesses ==
    /\ \A k \in Keys : GetVal(store, k, now) <= Successes(k)
    /\ (NoneCommitting /\ \A r \in Requests : ~req[r].commitErr) =>
          \A k \in Keys :
              k[2] = getTodayKey(now) => GetVal(store, k, now) = Successes(k)

\* two requests of one identity succeeded and were committed in full: the
\* counter of the current day has grown by two
C9_Witness ==
    /\ NoneCommitting
    /\ \A r \in Requests : ~req[r].commitErr
    /\ \E k \in Keys :
         /\ k[2] = getTodayKey(now)
         /\ k[1] # Global
         /\ Cardinality(SucceededOn(k)) = 2
         /\ GetVal(store, k, now) = prior[k] + 2

\* ------------------------------------------------------------------------
\* C10
\* ------------------------------------------------------------------------

\* C10: in every step, the value read for a day's counter does not decrease
\* while the clock stays in that day, and a value decreases only because the
\* clock has reached the key's expiry, after which the key reads 0; no step
\* of the handler lowers or deletes a counter.
C10_MonotoneWithinDay ==
    [][\A k \in Keys :
          /\ (getTodayKey(now) = k[2] /\ getTodayKey(now') = k[2]) =>
                GetVal(store', k, now') >= GetVal(store, k, now)
          /\ GetVal(store', k, now') < GetVal(store, k, now) =>
                /\ now' > now
                /\ req' = req
                /\ store[k].exp # NoTTL
                /\ store[k].exp <= now'
                /\ GetVal(store', k, now') = 0]_vars

\* a counter that was incremented on day 0 has expired on day 1 and reads 0,
\* while the current day's counter has been incremented
C10_Witness ==
    \E c \in Clients :
        /\ getTodayKey(now) = 1
        /\ Successes(clientKey(c, 0)) > 0
        /\ GetVal(store, clientKey(c, 0), now) = 0
        /\ GetVal(store, clientKey(c, 1), now) > 0

\* ------------------------------------------------------------------------
\* C11, C12
\* ------------------------------------------------------------------------

\* request r has been answered from an upstream response other than 200
UpstreamFailure(r) ==
    /\ Done(r)
    /\ req[r].upstream.kind = "response"
    /\ req[r].upstream.status # 200

\* the body of the upstream response is the provider's 503 UNAVAILABLE envelope
IsUnavailableEnvelope(b) == b.parses /\ b.code = 503 /\ b.token = "UNAVAILABLE"

\* C11: every upstream response with a status other than 200 whose body
\* parses as an error envelope with code 503 and token UNAVAILABLE is answered
\* with status 503 and the normalized provider_unavailable body, whatever
\* the upstream's own status and body were.
C11_UnavailableNormalized ==
    \A r \in Requests :
        (UpstreamFailure(r) /\ IsUnavailableEnvelope(req[r].upstream.body)) =>
            /\ resp[r].status = 503
            /\ resp[r].body = ProviderUnavailable
            /\ resp[r].body # Forwarded(req[r].upstream.body)

\* the upstream answered 500 with the UNAVAILABLE envelope and the caller
\* received 503 with the normalized body
C11_Witness ==
    \E r \in Requests :
        /\ UpstreamFailure(r)
        /\ req[r].upstream.status = 500
        /\ req[r].upstream.body = Unavailable
        /\ resp[r].status = 503
        /\ resp[r].body.kind = "provider_unavailable"

\* C12: every upstream response with a status other than 200 that is not
\* classified provider-unavailable (the body does not parse, or parses with
\* another code or another token) is answered with exactly the upstream's
\* status and exactly the upstream's body.
C12_PassThrough ==
    \A r \in Requests :
        (UpstreamFailure(r) /\ ~IsUnavailableEnvelope(req[r].upstream.body)) =>
            /\ resp[r].status = req[r].upstream.status
            /\ resp[r].body = Forwarded(req[r].upstream.body)

\* an envelope with code 503 and another token was forwarded as it came, and
\* so was a body that does not parse or carries another code
C12_Witness ==
    \E r \in Requests :
        /\ UpstreamFailure(r)
        /\ req[r].upstream.body.parses
        /\ req[r].upstream.body.code = 503
        /\ req[r].upstream.body.token # "UNAVAILABLE"
        /\ resp[r].status = 500
        /\ resp[r].body.raw = req[r].upstream.body
        /\ \E q \in Requests :
             /\ UpstreamFailure(q)
             /\ (~req[q].upstream.body.parses
                   \/ req[q].upstream.body.code # 503)
             /\ resp[q].status = 500
             /\ resp[q].body.raw = req[q].upstream.body

\* ------------------------------------------------------------------------
\* C13
\* ------------------------------------------------------------------------

\* the response to r carries header name with value v
HasHeader(r, name, v) == <<name, v>> \in resp[r].hdrs

\* the response to r carries header name, with whatever value
Carries(r, name) == \E h \in resp[r].hdrs : h[1] = name

\* the remaining-quota headers of a 200 are computed from the counts that
\* the admission check read
RemainingFromAdmission(r) ==
    /\ HasHeader(r, "X-RateLimit-Client-Remaining",
                 ClientRateLimitPerDay - req[r].clientCount - 1)
    /\ HasHeader(r, "X-RateLimit-Global-Remaining",
                 GlobalRateLimitPerDay - req[r].globalCount - 1)

\* C13 as stated: on every 200 response the remaining-quota headers are
\* limit - count - 1 and are what is left of the counters as they stand
\* right after this request's own increments.
C13_Original ==
    \A r \in Requests :
        resp[r].status = 200 =>
            /\ RemainingFromAdmission(r)
            /\ hist[r].afterC # NotApplied =>
                  HasHeader(r, "X-RateLimit-Client-Remaining",
                            ClientRateLimitPerDay - hist[r].afterC)
            /\ hist[r].afterG # NotApplied =>
                  HasHeader(r, "X-RateLimit-Global-Remaining",
                            GlobalRateLimitPerDay - hist[r].afterG)

\* the key whose count r read had not expired when r's own INCR ran: an INCR
\* that yields 1 has created the key
KeptClientKey(r) == hist[r].afterC = 1 => req[r].clientCount = 0
KeptGlobalKey(r) == hist[r].afterG = 1 => req[r].globalCount = 0

\* C13: on every 200 response the remaining-quota headers are limit - count
\* - 1 for the counts read at admission; each is what is left of its counter
\* right after this request's own increment when that increment ran on the
\* UTC day of the admission read and, between this request's read of the
\* counter and its own increment, no other request incremented the counter
\* and the counter's key did not expire.
C13_RemainingHeaders ==
    \A r \in Requests :
        resp[r].status = 200 =>
            /\ RemainingFromAdmission(r)
            /\ (/\ hist[r].afterC # NotApplied
                /\ req[r].commitDay = req[r].today
                /\ ~hist[r].racedC
                /\ KeptClientKey(r)) =>
                  HasHeader(r, "X-RateLimit-Client-Remaining",
                            ClientRateLimitPerDay - hist[r].afterC)
            /\ (/\ hist[r].afterG # NotApplied
                /\ req[r].commitDay = req[r].today
                /\ ~hist[r].racedG
                /\ KeptGlobalKey(r)) =>
                  HasHeader(r, "X-RateLimit-Global-Remaining",
                            GlobalRateLimitPerDay - hist[r].afterG)

\* the fifth success of an identity: four counted before, the counter stands
\* at the limit after the increment and the 200 reports no quota left
C13_Witness ==
    \E r \in Requests :
        /\ resp[r].status = 200
        /\ req[r].clientCount = ClientRateLimitPerDay - 1
        /\ req[r].commitDay = req[r].today
        /\ ~hist[r].racedC /\ ~hist[r].racedG
        /\ hist[r].afterC = ClientRateLimitPerDay
        /\ hist[r].afterG = req[r].globalCount + 1
        /\ HasHeader(r, "X-RateLimit-Client-Remaining", 0)

\* ------------------------------------------------------------------------
\* C14
\* ------------------------------------------------------------------------

\* CheckRateLimit read both counters and did not allow r: checkRateLimits
\* has written the rejection
AdmissionRejected(r) ==
    /\ Done(r)
    /\ ~req[r].allowed
    /\ req[r].globalErr \in {"nil", "redis.Nil"}

\* the headers every outcome is said to carry
QuotaHeaders ==
    {"X-RateLimit-Client-Limit", "X-RateLimit-Client-Remaining",
     "X-RateLimit-Global-Limit"}

\* C14 as stated: every terminal outcome carries X-RateLimit-Client-Limit,
\* X-RateLimit-Client-Remaining and X-RateLimit-Global-Limit, and the 200
\* outcome carries X-RateLimit-Global-Remaining as well.
C14_Original ==
    \A r \in Requests :
        Done(r) =>
            /\ \A h \in QuotaHeaders : Carries(r, h)
            /\ resp[r].status = 200 => Carries(r, "X-RateLimit-Global-Remaining")

\* C14: the admission rejection (429) carries X-RateLimit-Client-Limit,
\* X-RateLimit-Client-Remaining and X-RateLimit-Global-Limit, the 200
\* outcome carries these and X-RateLimit-Global-Remaining, and every other
\* terminal outcome carries none of them.
C14_HeadersByOutcome ==
    \A r \in Requests :
        Done(r) =>
            IF AdmissionRejected(r)
            THEN /\ resp[r].status = 429
                 /\ \A h \in QuotaHeaders : Carries(r, h)
            ELSE IF resp[r].status = 200
            THEN /\ \A h \in QuotaHeaders : Carries(r, h)
                 /\ Carries(r, "X-RateLimit-Global-Remaining")
            ELSE resp[r].hdrs = {}

\* one request was answered 200 with the four headers, one was turned away
\* with 405 and no header
C14_Witness ==
    \E r, q \in Requests :
        /\ resp[r].status = 200
        /\ \A h \in QuotaHeaders : Carries(r, h)
        /\ Carries(r, "X-RateLimit-Global-Remaining")
        /\ Done(q)
        /\ resp[q].status = 405
        /\ resp[q].hdrs = {}

\* ------------------------------------------------------------------------
\* C15
\* ------------------------------------------------------------------------

\* what made CheckRateLimit turn r away
ClientBreached(r) == req[r].clientCount >= ClientRateLimitPerDay
GlobalBreached(r) ==
    /\ ~ClientBreached(r)
    /\ req[r].globalCount >= GlobalRateLimitPerDay

\* C15: every 429 rejection carries the remaining-quota headers with 0 for
\* the breached scope: X-RateLimit-Client-Remaining is 0 exactly when the
\* client limit is breached, and X-RateLimit-Global-Remaining is 0 when the
\* rejection is due to the global limit.
C15_RejectionRemaining ==
    \A r \in Requests :
        AdmissionRejected(r) =>
            /\ Carries(r, "X-RateLimit-Client-Remaining")
            /\ HasHeader(r, "X-RateLimit-Client-Remaining", 0) <=> ClientBreached(r)
            /\ GlobalBreached(r) => HasHeader(r, "X-RateLimit-Global-Remaining", 0)

\* ------------------------------------------------------------------------
\* C16
\* ------------------------------------------------------------------------

\* parseRequest found the body of r malformed or its content empty
InvalidBody(r) == req[r].body \in {"malformed", "empty"}

\* r has read a counter of the store
ReadStore(r) == req[r].clientErr # "" \/ req[r].globalErr # ""

\* C16 as stated: a request with a malformed body or empty content is
\* rejected with 400 before any store interaction, the admission reads
\* included, and before any upstream call.
C16_Original ==
    \A r \in Requests :
        InvalidBody(r) =>
            /\ resp[r].status = 400
            /\ ~ReadStore(r)
            /\ hist[r].upCalls = 0

\* C16: a request with a malformed body or empty content is rejected with
\* 400 before any upstream call and before any counter is incremented, and
\* after the store handle was obtained and both admission reads succeeded
\* and allowed the request.
C16_ValidationAfterAdmission ==
    \A r \in Requests :
        InvalidBody(r) =>
            /\ resp[r].status = 400
            /\ resp[r].body = ErrorResponse(parseRequest(req[r].body))
            /\ hist[r].upCalls = 0
            /\ req[r].pipeIdx = 0
            /\ redisOnce = "ok"
            /\ req[r].clientErr \in {"nil", "redis.Nil"}
            /\ req[r].globalErr \in {"nil", "redis.Nil"}
            /\ req[r].allowed

\* a request with empty content got its 400 after reading a counter that
\* held earlier successes
C16_Witness ==
    \E r \in Requests :
        /\ req[r].body = "empty"
        /\ resp[r].status = 400
        /\ req[r].clientErr = "nil"
        /\ req[r].clientCount > 0
        /\ hist[r].upCalls = 0

\* ------------------------------------------------------------------------
\* C17
\* ------------------------------------------------------------------------

\* a counter read of r failed
ReadFailed(r) == req[r].clientErr = "fail" \/ req[r].globalErr = "fail"

\* r reached executeGeminiCall and found no ARMY_ACCESS_KEY
MissingAccessKey(r) == Done(r) /\ req[r].body = "ok" /\ ~env.armyKey

\* C17: the status of the response follows the terminal outcome: wrong
\* method 405, before any store or upstream access; malformed body or empty
\* content 400; admission rejection 429; store read failure or missing
\* access key 500; transport failure of the upstream call 502; classified
\* provider-unavailable 503; any other non-200 upstream status forwarded;
\* upstream 200 gives 200.
C17_StatusTable ==
    /\ (\A q \in Requests : req[q].method # "POST") => redisOnce = "new"
    /\ \A r \in Requests :
         Done(r) =>
            /\ req[r].method # "POST" =>
                  /\ resp[r].status = 405
                  /\ ~ReadStore(r)
                  /\ hist[r].upCalls = 0
            /\ InvalidBody(r) => resp[r].status = 400
            /\ AdmissionRejected(r) => resp[r].status = 429
            /\ ReadFailed(r) => resp[r].status = 500
            /\ MissingAccessKey(r) => resp[r].status = 500
            /\ req[r].upstream.kind = "transport" => resp[r].status = 502
            /\ (UpstreamFailure(r) /\ IsUnavailableEnvelope(req[r].upstream.body)) =>
                  resp[r].status = 503
            /\ (UpstreamFailure(r) /\ ~IsUnavailableEnvelope(req[r].upstream.body)) =>
                  resp[r].status = req[r].upstream.status
            /\ UpstreamSuccess(r) => resp[r].status = 200

\* a GET was turned away with 405 before the store was ever contacted, and
\* later a POST ran into a transport failure and got 502
C17_Witness ==
    \E r, q \in Requests :
        /\ Done(r)
        /\ req[r].method = "GET"
        /\ resp[r].status = 405
        /\ Done(q)
        /\ req[q].upstream.kind = "transport"
        /\ resp[q].status = 502

\* ------------------------------------------------------------------------
\* C18
\* ------------------------------------------------------------------------

\* the first entry of X-Forwarded-For, trimmed
FirstEntry(r) == TrimSpace(FirstPart(r.xff))

\* the connection address without its port suffix, the last colon and what
\* follows it; an address without a colon as it is
WithoutPort(addr) ==
    IF LastIndex(addr, ":") = 0 THEN addr
    ELSE SubSeq(addr, 1, LastIndex(addr, ":") - 1)

\* C18: GetClientIP returns the trimmed first entry of X-Forwarded-For when
\* that entry is present and not empty; otherwise the X-Real-IP value when
\* present; otherwise the connection address with its trailing port suffix
\* stripped, an address without a port suffix as it is.
C18_ResolverPrecedence ==
    clientIP # NoIP =>
        clientIP = IF FirstEntry(conn) # <<>> THEN FirstEntry(conn)
                   ELSE IF conn.xri # <<>> THEN conn.xri
                   ELSE WithoutPort(conn.remoteAddr)

\* ------------------------------------------------------------------------
\* C19
\* ------------------------------------------------------------------------

\* the place of a collaborator call in the order of the handler
StepOrder(step) ==
    CASE step = "CheckRateLimit" -> 1
      [] step = "client.Do" -> 2
      [] OTHER -> 3

\* how often r made the call step
Calls(r, step) ==
    Cardinality({ i \in 1..Len(hist[r].steps) : hist[r].steps[i] = step })

\* C19: a request makes at most one upstream call and at most one ledger
\* commit, in the order admission read, upstream call, ledger commit (only
\* after an upstream 200), response, the response being emitted last; a
\* request rejected with 429 makes no upstream call and no commit; no step
\* is made twice.
C19_OnePassInOrder ==
    \A r \in Requests :
        /\ \A i, j \in 1..Len(hist[r].steps) :
              i < j => StepOrder(hist[r].steps[i]) < StepOrder(hist[r].steps[j])
        /\ Calls(r, "client.Do") = hist[r].upCalls
        /\ Calls(r, "client.Do") > 0 => Calls(r, "CheckRateLimit") = 1
        /\ Calls(r, "IncrementRateLimit") > 0 =>
              /\ Calls(r, "client.Do") = 1
              /\ UpstreamSuccess(r)
        /\ req[r].pipeIdx > 0 => Calls(r, "IncrementRateLimit") = 1
        /\ resp[r].status # 0 <=> Done(r)
        /\ resp[r].status = 200 => Calls(r, "IncrementRateLimit") = 1
        /\ AdmissionRejected(r) =>
              /\ Calls(r, "client.Do") = 0
              /\ Calls(r, "IncrementRateLimit") = 0

\* one request went through the three calls in order and was answered 200,
\* another was rejected with 429 after its admission read alone
C19_Witness ==
    \E r, q \in Requests :
        /\ resp[r].status = 200
        /\ hist[r].steps = <<"CheckRateLimit", "client.Do", "IncrementRateLimit">>
        /\ resp[q].status = 429
        /\ hist[q].steps = <<"CheckRateLimit">>

\* ------------------------------------------------------------------------
\* C20
\* ------------------------------------------------------------------------

\* the key the next pipeline command of r works on
CommandKey(r) ==
    IF req[r].pipeIdx < 2 THEN clientKey(req[r].ip, req'[r].commitDay)
    ELSE globalKey(req'[r].commitDay)

\* this step runs an INCR, an EXPIRE, of the pipeline of r
IncrStep(r) == req[r].pipeIdx \in {0, 2} /\ req'[r].pipeIdx = req[r].pipeIdx + 1
ExpireStep(r) == req[r].pipeIdx \in {1, 3} /\ req'[r].pipeIdx = req[r].pipeIdx + 1

\* C20 as stated: a counter key is created with count 1 by its first
\* increment and expires 24 hours after that first increment: no later
\* step moves the expiry time of a key that has one.
C20_Original ==
    [][\A k \in Keys :
          /\ (~Live(store, k, now) /\ Live(store', k, now')) => store'[k].val = 1
          /\ (/\ Live(store, k, now)
              /\ store[k].exp # NoTTL
              /\ Live(store', k, now')) => store'[k].exp = store[k].exp]_vars

\* C20: a counter key is created with count 1 by its first increment; every
\* increment whose EXPIRE the store executes sets the expiry to 24 hours
\* after that EXPIRE, so the key expires 24 hours after its latest such
\* increment; no other step moves the expiry, and the key reads 0 once the
\* clock reaches it.
C20_ExpiryFollowsLastIncrement ==
    [][\A k \in Keys :
          /\ (~Live(store, k, now) /\ Live(store', k, now')) =>
                /\ store'[k].val = 1
                /\ \E r \in Requests : IncrStep(r) /\ CommandKey(r) = k
          /\ \A r \in Requests :
                (ExpireStep(r) /\ CommandKey(r) = k /\ Live(store, k, now)) =>
                    store'[k].exp = now + DayLen
          /\ (Live(store', k, now') /\ store'[k].exp # store[k].exp) =>
                \E r \in Requests :
                    /\ CommandKey(r) = k
                    /\ IncrStep(r) \/ ExpireStep(r)
          /\ (store[k].exp # NoTTL /\ now' >= store[k].exp /\ req' = req) =>
                GetVal(store', k, now') = 0]_vars

\* a key counted at time 0 was incremented again one tick later and its
\* expiry has moved with it
C20_Witness ==
    \E k \in Keys :
        /\ k[2] = 0
        /\ prior[k] > 0
        /\ Live(store, k, now)
        /\ store[k].val > prior[k]
        /\ store[k].exp > RateLimitTTL

\* ------------------------------------------------------------------------
\* C21
\* ------------------------------------------------------------------------

\* C21: a request whose client disconnected, the server having detected it,
\* before the upstream call was dispatched is aborted: it makes no upstream
\* call and no ledger commit.
C21_DisconnectAborts ==
    \A r \in Requests :
        ctxDone[r] = "beforeDispatch" =>
            /\ hist[r].upCalls = 0
            /\ Calls(r, "IncrementRateLimit") = 0
            /\ req[r].pipeIdx = 0

\* ------------------------------------------------------------------------
\* C22
\* ------------------------------------------------------------------------

\* C22: the UTC day that IncrementRateLimit puts into its keys is the day
\* that the same request's CheckRateLimit put into the keys it read, so the
\* commit increments the keys the admission check read, also for a request
\* whose upstream call spans UTC midnight.
C22_CommitDayIsAdmissionDay ==
    \A r \in Requests :
        Calls(r, "IncrementRateLimit") > 0 =>
            /\ req[r].commitDay = req[r].today
            /\ clientKey(req[r].ip, req[r].commitDay) = clientKey(req[r].ip, req[r].today)
            /\ globalKey(req[r].commitDay) = globalKey(req[r].today)

\* ------------------------------------------------------------------------
\* C23
\* ------------------------------------------------------------------------

\* the sum of the values f gives to the members of the finite set S
RECURSIVE SumOver(_, _)
SumOver(f, S) ==
    IF S = {} THEN 0
    ELSE LET x == CHOOSE y \in S : TRUE IN f[x] + SumOver(f, S \ {x})

\* what the client-scope counters of day add up to: the identities of
\* Clients as the store holds them, and the identities outside Clients as
\* counted before the first modelled request
ClientCountersSum(day) ==
    SumOver([c \in Clients |-> GetVal(store, clientKey(c, day), now)], Clients)
    + (prior[globalKey(day)] - SumOver([c \in Clients |-> prior[clientKey(c, day)]], Clients))

\* IncrementRateLimit is running for some request
CommitInProgress == \E r \in Requests : req[r].pc = "incrementLimits"

\* C23: whenever no ledger commit is in progress, the global-scope counter
\* of a UTC day equals the sum of the client-scope counters of that day over
\* all identities, also after commits that failed or that the store applied
\* only in part. Stated for the day of the clock, no key of which can have
\* expired.
C23_GlobalIsSumOfClients ==
    ~CommitInProgress =>
        LET day == getTodayKey(now) IN
        GetVal(store, globalKey(day), now) = ClientCountersSum(day)

\* ------------------------------------------------------------------------
\* C24
\* ------------------------------------------------------------------------

\* the initialisation of the store handle has failed: redisErr is set
InitFailed == redisOnce = "err"

\* C24: the store handle is initialised at most once, whatever the number of
\* requests that reach GetRedisClient together: once the initialisation has
\* run, its outcome never changes and it is never run again. A failed
\* initialisation is sticky: from then on no request gets past
\* getRedisClient, every request that reaches it (validateMethod comes
\* first and answers a wrong method with 405) ends with status 500, and no
\* request reads a counter, calls the upstream or increments a counter.
C24_InitOnceFailureSticky ==
    [][/\ redisOnce # "new" => redisOnce' = redisOnce
       /\ InitFailed' =>
             \A r \in Requests :
                 /\ req'[r].pc \in {"idle", "getRedisClient", "done"}
                 /\ (req'[r].pc = "done" /\ validateMethod(req'[r].method)) =>
                        /\ resp'[r].status = 500
                        /\ resp'[r].body = ErrorResponse("Internal server error")
                 /\ req'[r].clientErr = "" /\ req'[r].globalErr = ""
                 /\ hist'[r].steps = <<>>
                 /\ hist'[r].upCalls = 0
                 /\ req'[r].pipeIdx = 0]_vars

\* the initialisation failed and two POSTs have ended with 500: the one
\* that ran the initialisation and the one that found its failure
C24_Witness ==
    /\ InitFailed
    /\ \E r, q \in Requests :
          /\ r < q
          /\ req[r].method = "POST" /\ req[q].method = "POST"
          /\ Done(r) /\ resp[r].status = 500
          /\ Done(q) /\ resp[q].status = 500
          /\ now = 0

====
